---- MODULE Spec2Model ----
(***************************************************************************)
(* Model of apps/api/seed_db.py: the coroutine seed(), run by NumRuns      *)
(* invocations against one shared store.  Every await of the coroutine     *)
(* (the count query, the two commits, the two refreshes) is a point where  *)
(* another invocation may take a step; any step may raise, and nothing in  *)
(* seed() catches.                                                         *)
(***************************************************************************)
EXTENDS Integers, Sequences, FiniteSets, TLC

\* ---------------------------------------------------------------- bounds
NumRuns == 2
MaxPre == 2

Runs == 1..NumRuns

\* ------------------------------------------------------------ helpers
Range(s) == {s[i] : i \in DOMAIN s}

\* Primary key of a transient object (Python None).
NoId == 0

\* ------------------------------------------------- external collaborators
\* app.core.security.get_password_hash: an opaque one-way function; the
\* secret is a 1-tuple, the hash a tagged 2-tuple.
get_password_hash(plaintext) == <<"$hash$", plaintext[1]>>

\* The verify operation paired with get_password_hash.
verify_password(plaintext, hashed) ==
    /\ Len(hashed) = 2
    /\ hashed = get_password_hash(plaintext)

\* The constraints the schema puts on an insert: the primary key only
\* (no unique constraint backs the account email).
IntegrityError(table, rows) ==
    \E x \in table, y \in rows : x.id = y.id

\* ------------------------------------------------------- fixed seed data
\* UserSpecs with the admin account given the manager role.
UserSpecsWrongRole ==
    << [email |-> "admin@example.com", full_name |-> "Admin User",
        secret |-> <<"admin123">>, role |-> "manager", is_active |-> TRUE],
       [email |-> "manager@example.com", full_name |-> "Manager User",
        secret |-> <<"manager123">>, role |-> "manager", is_active |-> TRUE],
       [email |-> "viewer@example.com", full_name |-> "Viewer User",
        secret |-> <<"viewer123">>, role |-> "viewer", is_active |-> TRUE] >>

\* The three User(...) constructor calls, before hashing.
UserSpecs ==
    << [email |-> "admin@example.com", full_name |-> "Admin User",
        secret |-> <<"admin123">>, role |-> "admin", is_active |-> TRUE],
       [email |-> "manager@example.com", full_name |-> "Manager User",
        secret |-> <<"manager123">>, role |-> "manager", is_active |-> TRUE],
       [email |-> "viewer@example.com", full_name |-> "Viewer User",
        secret |-> <<"viewer123">>, role |-> "viewer", is_active |-> TRUE] >>

\* A User whose hashed_password is the secret itself.
NewUserPlaintext(us) ==
    [id |-> NoId, email |-> us.email, full_name |-> us.full_name,
     hashed_password |-> us.secret,
     role |-> us.role, is_active |-> us.is_active]

\* User(email=..., hashed_password=get_password_hash(secret), ...)
NewUser(us) ==
    [id |-> NoId, email |-> us.email, full_name |-> us.full_name,
     hashed_password |-> get_password_hash(us.secret),
     role |-> us.role, is_active |-> us.is_active]

\* ProjectSpecs with the budgets in whole dollars instead of cents.
ProjectSpecsDollars ==
    << [name |-> "Website Redesign", status |-> "active", priority |-> "high",
        budget |-> 50000, owner |-> 1],
       [name |-> "Mobile App", status |-> "draft", priority |-> "medium",
        budget |-> 100000, owner |-> 2],
       [name |-> "API Integration", status |-> "active", priority |-> "critical",
        budget |-> 25000, owner |-> 1] >>

\* The three Project(...) constructor calls; owner is an index into
\* <<admin, manager, viewer>>.
ProjectSpecs ==
    << [name |-> "Website Redesign", status |-> "active", priority |-> "high",
        budget |-> 5000000, owner |-> 1],
       [name |-> "Mobile App", status |-> "draft", priority |-> "medium",
        budget |-> 10000000, owner |-> 2],
       [name |-> "API Integration", status |-> "active", priority |-> "critical",
        budget |-> 2500000, owner |-> 1] >>

NewProject(ps, owners) ==
    [id |-> NoId, name |-> ps.name, status |-> ps.status,
     priority |-> ps.priority, budget |-> ps.budget,
     owner_id |-> owners[ps.owner].id]

\* The literal login lines printed at the end of a successful run.
LoginLines ==
    << <<"admin@example.com", "admin123">>,
       <<"manager@example.com", "manager123">>,
       <<"viewer@example.com", "viewer123">> >>

\* ----------------------------------------------------------------- store
\* Accounts found in the store before the first invocation.
PreEmails ==
    << "pre1@example.com", "pre2@example.com", "pre3@example.com",
       "pre4@example.com" >>

PreUsers(n) ==
    { [id |-> i, email |-> PreEmails[i], full_name |-> "Existing User",
       hashed_password |-> get_password_hash(<<"existing">>),
       role |-> "viewer", is_active |-> TRUE] : i \in 1..n }

MaxId(table) ==
    IF table = {} THEN 0
    ELSE CHOOSE m \in {x.id : x \in table} : \A y \in table : y.id <= m

\* The flush of a commit: pending objects get consecutive primary keys.
AssignIds(objs, first) ==
    [i \in DOMAIN objs |-> [objs[i] EXCEPT !.id = first + i - 1]]

\* select(func.count(User.id))
CountUsers(table) == Cardinality({u.id : u \in table})

\* The gate with a threshold of 3, and of 1, instead of 0.
AlreadySeededOffByThree(n) == n > 3

AlreadySeededOffByOne(n) == n > 1

\* if user_count > 0: skip
AlreadySeeded(n) == n > 0

\* A re-read by email: the oldest row with the object's email.
RefreshByEmail(table, obj) ==
    LET same == {u \in table : u.email = obj.email}
    IN  CHOOSE u \in same : \A v \in same : u.id <= v.id

\* session.refresh(obj): re-read the row with the object's primary key.
Refresh(table, obj) == CHOOSE u \in table : u.id = obj.id

Refreshable(table, obj) == \E u \in table : u.id = obj.id

\* ----------------------------------------------------------------- state
VARIABLES
    users,       \* committed rows of the user table
    projects,    \* committed rows of the project table
    pc,          \* pc[r]: where invocation r stands in seed()
    user_count,  \* user_count[r]: the local user_count (-1 before the query)
    uobj,        \* uobj[r]: the locals <<admin, manager, viewer>>
    pobj,        \* pobj[r]: the locals <<p1, p2, p3>>
    pending,     \* pending[r]: objects added to r's session, not yet flushed
    out,         \* out[r]: what r has printed
    error,       \* error[r]: the step whose exception ended r ("" if none)
    inserted     \* inserted[r]: primary keys of the rows r's commits inserted

vars ==
    <<users, projects, pc, user_count, uobj, pobj, pending, out, error, inserted>>

\* Steps at which an exception can be raised.
FailSteps ==
    {"count", "hash", "add_users", "commit_users", "refresh_admin",
     "refresh_manager", "add_projects", "commit_projects"}

\* Steps that follow the successful commit of the accounts.
AfterUserCommit ==
    {"refresh_admin", "refresh_manager", "add_projects", "commit_projects"}

Init ==
    /\ users \in {PreUsers(n) : n \in 0..MaxPre}
    /\ projects = {}
    /\ pc = [r \in Runs |-> "count"]
    /\ user_count = [r \in Runs |-> -1]
    /\ uobj = [r \in Runs |-> <<>>]
    /\ pobj = [r \in Runs |-> <<>>]
    /\ pending = [r \in Runs |-> <<>>]
    /\ out = [r \in Runs |-> <<>>]
    /\ error = [r \in Runs |-> ""]
    /\ inserted = [r \in Runs |-> [users |-> {}, projects |-> {}]]

\* The count query and the gate, with the login lines printed on a skip too.
CountReportsLogin(r) ==
    /\ pc[r] = "count"
    /\ LET n == CountUsers(users)
       IN  /\ user_count' = [user_count EXCEPT ![r] = n]
           /\ IF AlreadySeeded(n)
              THEN /\ pc' = [pc EXCEPT ![r] = "skipped"]
                   /\ out' = [out EXCEPT ![r] =
                                @ \o << <<"credentials", LoginLines>>,
                                        <<"already", n>> >>]
              ELSE /\ pc' = [pc EXCEPT ![r] = "hash"]
                   /\ out' = [out EXCEPT ![r] = Append(@, <<"empty">>)]
    /\ UNCHANGED <<users, projects, uobj, pobj, pending, error, inserted>>

\* Lines 16-23: the count query and the emptiness gate.
Count(r) ==
    /\ pc[r] = "count"
    /\ LET n == CountUsers(users)
       IN  /\ user_count' = [user_count EXCEPT ![r] = n]
           /\ IF AlreadySeeded(n)
              THEN /\ pc' = [pc EXCEPT ![r] = "skipped"]
                   /\ out' = [out EXCEPT ![r] = Append(@, <<"already", n>>)]
              ELSE /\ pc' = [pc EXCEPT ![r] = "hash"]
                   /\ out' = [out EXCEPT ![r] = Append(@, <<"empty">>)]
    /\ UNCHANGED <<users, projects, uobj, pobj, pending, error, inserted>>

\* The User objects and, in the same step, the Project objects, built
\* before any commit has assigned a primary key.
HashUsersAndProjects(r) ==
    /\ pc[r] = "hash"
    /\ LET us == [i \in DOMAIN UserSpecs |-> NewUser(UserSpecs[i])]
       IN  /\ uobj' = [uobj EXCEPT ![r] = us]
           /\ pobj' = [pobj EXCEPT ![r] =
                         [i \in DOMAIN ProjectSpecs |->
                             NewProject(ProjectSpecs[i], us)]]
    /\ pc' = [pc EXCEPT ![r] = "add_users"]
    /\ UNCHANGED <<users, projects, user_count, pending, out, error, inserted>>

\* Lines 26-46: the three User objects, each with its secret hashed.
HashUsers(r) ==
    /\ pc[r] = "hash"
    /\ uobj' = [uobj EXCEPT ![r] =
                  [i \in DOMAIN UserSpecs |-> NewUser(UserSpecs[i])]]
    /\ pc' = [pc EXCEPT ![r] = "add_users"]
    /\ UNCHANGED <<users, projects, user_count, pobj, pending, out, error, inserted>>

\* Line 48: session.add_all([admin, manager, viewer]).
AddUsers(r) ==
    /\ pc[r] = "add_users"
    /\ pending' = [pending EXCEPT ![r] = @ \o uobj[r]]
    /\ pc' = [pc EXCEPT ![r] = "commit_users"]
    /\ UNCHANGED <<users, projects, user_count, uobj, pobj, out, error, inserted>>

\* The commit of the accounts, leaving out every email the store already has.
CommitUsersUpsert(r) ==
    /\ pc[r] = "commit_users"
    /\ LET fresh == SelectSeq(pending[r],
                              LAMBDA o : \A u \in users : u.email # o.email)
           rows == AssignIds(fresh, MaxId(users) + 1)
       IN  /\ ~IntegrityError(users, Range(rows))
           /\ users' = users \cup Range(rows)
           /\ uobj' = [uobj EXCEPT ![r] =
                         IF Len(rows) = Len(@) THEN rows ELSE @]
           /\ inserted' = [inserted EXCEPT ![r].users =
                              @ \cup {x.id : x \in Range(rows)}]
    /\ pending' = [pending EXCEPT ![r] = <<>>]
    /\ out' = [out EXCEPT ![r] = Append(@, <<"created_users", 3>>)]
    /\ pc' = [pc EXCEPT ![r] = "refresh_admin"]
    /\ UNCHANGED <<projects, user_count, pobj, error>>

\* Lines 49-50: the commit flushes the pending accounts in one transaction.
CommitUsers(r) ==
    /\ pc[r] = "commit_users"
    /\ LET rows == AssignIds(pending[r], MaxId(users) + 1)
       IN  /\ ~IntegrityError(users, Range(rows))
           /\ users' = users \cup Range(rows)
           /\ uobj' = [uobj EXCEPT ![r] = rows]
           /\ inserted' = [inserted EXCEPT ![r].users =
                              @ \cup {x.id : x \in Range(rows)}]
    /\ pending' = [pending EXCEPT ![r] = <<>>]
    /\ out' = [out EXCEPT ![r] = Append(@, <<"created_users", 3>>)]
    /\ pc' = [pc EXCEPT ![r] = "refresh_admin"]
    /\ UNCHANGED <<projects, user_count, pobj, error>>

\* Line 53: await session.refresh(admin).
RefreshAdmin(r) ==
    /\ pc[r] = "refresh_admin"
    /\ Refreshable(users, uobj[r][1])
    /\ uobj' = [uobj EXCEPT ![r][1] = Refresh(users, uobj[r][1])]
    /\ pc' = [pc EXCEPT ![r] = "refresh_manager"]
    /\ UNCHANGED <<users, projects, user_count, pobj, pending, out, error, inserted>>

\* Line 54: await session.refresh(manager).
RefreshManager(r) ==
    /\ pc[r] = "refresh_manager"
    /\ Refreshable(users, uobj[r][2])
    /\ uobj' = [uobj EXCEPT ![r][2] = Refresh(users, uobj[r][2])]
    /\ pc' = [pc EXCEPT ![r] = "add_projects"]
    /\ UNCHANGED <<users, projects, user_count, pobj, pending, out, error, inserted>>

\* Lines 57-82: the three Project objects and session.add_all([p1, p2, p3]).
AddProjects(r) ==
    /\ pc[r] = "add_projects"
    /\ LET ps == [i \in DOMAIN ProjectSpecs |-> NewProject(ProjectSpecs[i], uobj[r])]
       IN  /\ pobj' = [pobj EXCEPT ![r] = ps]
           /\ pending' = [pending EXCEPT ![r] = @ \o ps]
    /\ pc' = [pc EXCEPT ![r] = "commit_projects"]
    /\ UNCHANGED <<users, projects, user_count, uobj, out, error, inserted>>

\* Line 83: the commit flushes the pending projects in one transaction.
CommitProjects(r) ==
    /\ pc[r] = "commit_projects"
    /\ LET rows == AssignIds(pending[r], MaxId(projects) + 1)
       IN  /\ ~IntegrityError(projects, Range(rows))
           /\ projects' = projects \cup Range(rows)
           /\ pobj' = [pobj EXCEPT ![r] = rows]
           /\ inserted' = [inserted EXCEPT ![r].projects =
                              @ \cup {x.id : x \in Range(rows)}]
    /\ pending' = [pending EXCEPT ![r] = <<>>]
    /\ pc' = [pc EXCEPT ![r] = "report"]
    /\ UNCHANGED <<users, user_count, uobj, out, error>>

\* Lines 84-90: the report with the login lines.
Report(r) ==
    /\ pc[r] = "report"
    /\ out' = [out EXCEPT ![r] =
                 @ \o << <<"created_projects", 3>>, <<"success">>,
                         <<"credentials", LoginLines>> >>]
    /\ pc' = [pc EXCEPT ![r] = "done"]
    /\ UNCHANGED <<users, projects, user_count, uobj, pobj, pending, error, inserted>>

\* An exception after which the run deletes the accounts it had committed.
FailCleanup(r) ==
    /\ pc[r] \in FailSteps
    /\ error' = [error EXCEPT ![r] = pc[r]]
    /\ pending' = [pending EXCEPT ![r] = <<>>]
    /\ pc' = [pc EXCEPT ![r] = "failed"]
    /\ users' = {u \in users : u.id \notin inserted[r].users}
    /\ UNCHANGED <<projects, user_count, uobj, pobj, out, inserted>>

\* An exception that is caught and the step tried again.
FailRetry(r) ==
    /\ pc[r] \in FailSteps
    /\ error[r] = ""
    /\ error' = [error EXCEPT ![r] = pc[r]]
    /\ UNCHANGED <<users, projects, pc, user_count, uobj, pobj, pending, out,
                   inserted>>

\* An exception at the commit of the accounts after the first pending row
\* was written on its own.
FailAfterPartialFlush(r) ==
    /\ pc[r] \in FailSteps
    /\ error' = [error EXCEPT ![r] = pc[r]]
    /\ pending' = [pending EXCEPT ![r] = <<>>]
    /\ pc' = [pc EXCEPT ![r] = "failed"]
    /\ IF pc[r] = "commit_users"
       THEN LET row == AssignIds(pending[r], MaxId(users) + 1)[1]
            IN  /\ users' = users \cup {row}
                /\ inserted' = [inserted EXCEPT ![r].users = @ \cup {row.id}]
       ELSE UNCHANGED <<users, inserted>>
    /\ UNCHANGED <<projects, user_count, uobj, pobj, out>>

\* An exception after which the run starts over from the count query.
FailRestart(r) ==
    /\ pc[r] \in FailSteps
    /\ error[r] = ""
    /\ error' = [error EXCEPT ![r] = pc[r]]
    /\ pending' = [pending EXCEPT ![r] = <<>>]
    /\ pc' = [pc EXCEPT ![r] = "count"]
    /\ UNCHANGED <<users, projects, user_count, uobj, pobj, out, inserted>>

\* An exception raised by the current step: nothing in seed() catches it, the
\* async with block closes the session (pending objects are discarded) and
\* asyncio.run re-raises it.
Fail(r) ==
    /\ pc[r] \in FailSteps
    /\ error' = [error EXCEPT ![r] = pc[r]]
    /\ pending' = [pending EXCEPT ![r] = <<>>]
    /\ pc' = [pc EXCEPT ![r] = "failed"]
    /\ UNCHANGED <<users, projects, user_count, uobj, pobj, out, inserted>>

Next ==
    \E r \in Runs :
        \/ Count(r)
        \/ HashUsers(r)
        \/ AddUsers(r)
        \/ CommitUsers(r)
        \/ RefreshAdmin(r)
        \/ RefreshManager(r)
        \/ AddProjects(r)
        \/ CommitProjects(r)
        \/ Report(r)
        \/ Fail(r)

Spec == Init /\ [][Next]_vars

\* The steps of one invocation.
Step(r) ==
    \/ Count(r)
    \/ HashUsers(r)
    \/ AddUsers(r)
    \/ CommitUsers(r)
    \/ RefreshAdmin(r)
    \/ RefreshManager(r)
    \/ AddProjects(r)
    \/ CommitProjects(r)
    \/ Report(r)
    \/ Fail(r)

\* No invocation other than r is between its count query and its end.
OthersIdle(r) ==
    \A q \in Runs \ {r} : pc[q] \in {"count", "skipped", "done", "failed"}

\* Invocations run one after the other: an invocation takes a step only
\* while no other one is under way.
SeqNext ==
    \E r \in Runs :
        \/ OthersIdle(r) /\ Count(r)
        \/ OthersIdle(r) /\ HashUsers(r)
        \/ OthersIdle(r) /\ AddUsers(r)
        \/ OthersIdle(r) /\ CommitUsers(r)
        \/ OthersIdle(r) /\ RefreshAdmin(r)
        \/ OthersIdle(r) /\ RefreshManager(r)
        \/ OthersIdle(r) /\ AddProjects(r)
        \/ OthersIdle(r) /\ CommitProjects(r)
        \/ OthersIdle(r) /\ Report(r)
        \/ OthersIdle(r) /\ Fail(r)

SeqSpec == Init /\ [][SeqNext]_vars

\* The event loop resumes every coroutine whose awaited call has returned or
\* raised: an invocation that can take a step eventually takes one.
FairSpec == Spec /\ \A r \in Runs : WF_vars(Step(r))

\* ------------------------------------------------------- derived notions
\* What a run hands back, read off its position and its printed lines.
Outcome(r) ==
    CASE pc[r] = "skipped" -> <<"Skipped", out[r][Len(out[r])][2]>>
      [] pc[r] = "done"    -> <<"Seeded", out[r][2][2], out[r][3][2]>>
      [] pc[r] = "failed"  -> <<"Failed", error[r]>>
      [] OTHER             -> <<"Running">>

\* Primary keys of the accounts run r has committed.
UserIdsOf(r) == inserted[r].users

\* Primary keys of the work records run r has committed.
ProjectIdsOf(r) == inserted[r].projects

\* Run r is past the successful commit of its accounts.
PastUserCommit(r) ==
    \/ pc[r] \in AfterUserCommit \cup {"report", "done"}
    \/ pc[r] = "failed" /\ error[r] \in AfterUserCommit

\* Runs whose account commit has succeeded.
Committed == {r \in Runs : PastUserCommit(r)}

SeedEmails == {UserSpecs[i].email : i \in DOMAIN UserSpecs}

WithEmail(e) == {u \in users : u.email = e}

\* The store held no account before the first invocation.
InitiallyEmpty == \A u \in users : \E r \in Runs : u.id \in UserIdsOf(r)

NotStarted(r) == pc[r] = "count"

TypeOK ==
    /\ pc \in [Runs -> {"count", "skipped", "hash", "add_users", "commit_users",
                        "refresh_admin", "refresh_manager", "add_projects",
                        "commit_projects", "report", "done", "failed"}]
    /\ \A r \in Runs : user_count[r] \in -1..(MaxPre + 3 * NumRuns)
\* ----------------------------------------------------------------- claims

\* C1: when the procedure is run twice in sequence, without failure, against
\* a store that was empty, the second run (its count query taken after the
\* first run is done) is skipped with count 3 and writes nothing: the store
\* holds exactly 3 accounts and 3 work records after both runs.
C1_Idempotent ==
    [][\A r1, r2 \in Runs :
          ( /\ r1 # r2
            /\ InitiallyEmpty
            /\ pc[r1] = "done"
            /\ \A r \in Runs \ {r1} : NotStarted(r)
            /\ pc'[r2] \notin {"count", "failed"} )
          => ( /\ pc'[r2] = "skipped"
               /\ Outcome(r2)' = <<"Skipped", 3>>
               /\ users' = users
               /\ projects' = projects
               /\ Cardinality(users') = 3
               /\ Cardinality(projects') = 3
               /\ UserIdsOf(r2)' = {}
               /\ ProjectIdsOf(r2)' = {}
               /\ pending'[r2] = <<>> )]_vars

C1_Witness ==
    \E r1, r2 \in Runs :
        /\ r1 # r2
        /\ InitiallyEmpty
        /\ pc[r1] = "done"
        /\ Outcome(r1) = <<"Seeded", 3, 3>>
        /\ pc[r2] = "skipped"
        /\ user_count[r2] = 3
        /\ Cardinality(users) = 3
        /\ Cardinality(projects) = 3

\* C2: a run whose count query finds n >= 1 accounts is skipped with count n
\* and changes neither the accounts nor the work records; once skipped it
\* stays skipped, holds nothing pending and has inserted no row.
C2_EmptinessGate ==
    [][\A r \in Runs :
          /\ ( /\ pc[r] = "count"
               /\ pc'[r] \notin {"count", "failed"}
               /\ CountUsers(users) >= 1 )
             => ( /\ pc'[r] = "skipped"
                  /\ Outcome(r)' = <<"Skipped", CountUsers(users)>>
                  /\ users' = users
                  /\ projects' = projects )
          /\ pc[r] = "skipped"
             => ( /\ pc'[r] = "skipped"
                  /\ Outcome(r)' = Outcome(r)
                  /\ pending'[r] = <<>>
                  /\ UserIdsOf(r)' = {}
                  /\ ProjectIdsOf(r)' = {} )]_vars

C2_Witness ==
    \E r \in Runs :
        /\ pc[r] = "skipped"
        /\ users = PreUsers(2)
        /\ Outcome(r) = <<"Skipped", 2>>
        /\ projects = {}

\* C3: every work record a run has created, committed or still pending, is
\* owned by an account that the same run inserted and that is in the store;
\* every work record of the store was inserted by some run and is owned by
\* an account of that run.
C3_ReferentialIntegrity ==
    /\ \A r \in Runs : \A o \in Range(pobj[r]) :
          /\ o.owner_id \in UserIdsOf(r)
          /\ \E u \in users : u.id = o.owner_id
    /\ \A p \in projects : \E r \in Runs :
          /\ p.id \in ProjectIdsOf(r)
          /\ p.owner_id \in UserIdsOf(r)
          /\ \E u \in users : u.id = p.owner_id

C3_Witness ==
    \E r1, r2 \in Runs :
        /\ r1 # r2
        /\ ProjectIdsOf(r1) # {}
        /\ ProjectIdsOf(r2) # {}
        /\ Cardinality(projects) = 6

\* C4: every run whose account commit succeeded had counted 0 accounts, and
\* the store holds one account per seed email for each such run: two runs
\* that both counted 0 before either committed leave 6 accounts, two per
\* seed email.
C4_DoubleSeed ==
    /\ \A r \in Committed : user_count[r] = 0
    /\ Committed # {} =>
          /\ \A e \in SeedEmails :
                Cardinality(WithEmail(e)) = Cardinality(Committed)
          /\ Cardinality(users) = 3 * Cardinality(Committed)

C4_Witness ==
    \E r1, r2 \in Runs :
        /\ r1 # r2
        /\ Committed = {r1, r2}
        /\ user_count[r1] = 0
        /\ user_count[r2] = 0
        /\ Cardinality(users) = 6
        /\ \A e \in SeedEmails : Cardinality(WithEmail(e)) = 2

\* C5: no two accounts of the store have the same email.
C5_EmailUnique ==
    \A u1, u2 \in users : u1.email = u2.email => u1 = u2
\* Run r failed after its accounts were committed.
FailedAfterCommit(r) == pc[r] = "failed" /\ error[r] \in AfterUserCommit

\* No run other than r is under way or has written anything.
Quiet(r) ==
    \A q \in Runs \ {r} :
        \/ pc[q] \in {"count", "skipped"}
        \/ pc[q] = "failed" /\ error[q] \notin AfterUserCommit

\* C6: a run that fails after its account commit leaves its 3 accounts in
\* the store and no work record owned by them (3 accounts and 0 work records
\* when no other run is under way); every run that counts afterwards is
\* skipped and writes nothing, so the work records are never added.
C6_PartialFailure ==
    /\ [](\A r \in Runs : FailedAfterCommit(r) =>
            /\ Cardinality({u \in users : u.id \in UserIdsOf(r)}) = 3
            /\ ProjectIdsOf(r) = {}
            /\ \A p \in projects : p.owner_id \notin UserIdsOf(r)
            /\ Quiet(r) => (Cardinality(users) = 3 /\ projects = {}))
    /\ [][\A r, q \in Runs :
            /\ ( /\ FailedAfterCommit(r)
                 /\ pc[q] = "count"
                 /\ pc'[q] \notin {"count", "failed"} )
               => ( /\ pc'[q] = "skipped"
                    /\ users' = users
                    /\ projects' = projects )
            /\ (FailedAfterCommit(r) /\ Quiet(r))
               => (Quiet(r)' /\ projects' = {})]_vars

C6_Witness ==
    \E r, q \in Runs :
        /\ FailedAfterCommit(r)
        /\ Quiet(r)
        /\ pc[q] = "skipped"
        /\ Outcome(q) = <<"Skipped", 3>>
        /\ Cardinality(users) = 3
        /\ projects = {}

\* Names of the work records owned by the accounts with email e.
OwnedNames(e) ==
    {p.name : p \in {x \in projects : \E u \in WithEmail(e) : u.id = x.owner_id}}

\* Work records owned by the accounts with email e.
Owned(e) ==
    {p \in projects : \E u \in WithEmail(e) : u.id = p.owner_id}

\* C7: after one run without failure on an empty store (no other run
\* started) the account count is 3 and the run's outcome is Seeded(3, 3);
\* the admin account has role admin and owns exactly "Website Redesign" and
\* "API Integration"; the manager account has role manager and owns exactly
\* "Mobile App", status draft, budget 10,000,000; the viewer owns none.
C7_EndToEnd ==
    \A r \in Runs :
        ( /\ InitiallyEmpty
          /\ pc[r] = "done"
          /\ \A q \in Runs \ {r} : NotStarted(q) )
        => ( /\ CountUsers(users) = 3
             /\ Outcome(r) = <<"Seeded", 3, 3>>
             /\ Cardinality(WithEmail("admin@example.com")) = 1
             /\ \A u \in WithEmail("admin@example.com") : u.role = "admin"
             /\ Cardinality(Owned("admin@example.com")) = 2
             /\ OwnedNames("admin@example.com")
                   = {"Website Redesign", "API Integration"}
             /\ Cardinality(WithEmail("manager@example.com")) = 1
             /\ \A u \in WithEmail("manager@example.com") : u.role = "manager"
             /\ Cardinality(Owned("manager@example.com")) = 1
             /\ \A p \in Owned("manager@example.com") :
                   /\ p.name = "Mobile App"
                   /\ p.status = "draft"
                   /\ p.budget = 10000000
             /\ Cardinality(WithEmail("viewer@example.com")) = 1
             /\ Owned("viewer@example.com") = {} )

C7_Witness ==
    \E r \in Runs :
        /\ InitiallyEmpty
        /\ pc[r] = "done"
        /\ \A q \in Runs \ {r} : NotStarted(q)
        /\ Cardinality(projects) = 3

\* C8: an exception raised at the count query, the hashing, an insert, a
\* refresh or a commit ends the run as failed with that step as its error and
\* writes nothing; a failed run stays failed and does nothing more: its
\* error, its printed lines, its objects and its inserted rows stay as they
\* are and nothing is pending.
C8_FailuresFatal ==
    [][\A r \in Runs :
          /\ error'[r] # error[r]
             => ( /\ pc[r] \in FailSteps
                  /\ pc'[r] = "failed"
                  /\ Outcome(r)' = <<"Failed", pc[r]>>
                  /\ pending'[r] = <<>>
                  /\ users' = users
                  /\ projects' = projects )
          /\ pc'[r] = "failed" => error'[r] \in FailSteps
          /\ pc[r] = "failed"
             => ( /\ pc'[r] = "failed"
                  /\ error'[r] = error[r]
                  /\ out'[r] = out[r]
                  /\ uobj'[r] = uobj[r]
                  /\ pobj'[r] = pobj[r]
                  /\ pending'[r] = <<>>
                  /\ inserted'[r] = inserted[r] )]_vars

C8_Witness ==
    \E r, q \in Runs :
        /\ pc[r] = "failed"
        /\ error[r] = "commit_projects"
        /\ UserIdsOf(r) # {}
        /\ ProjectIdsOf(r) = {}
        /\ pc[q] = "failed"
        /\ error[q] = "hash"

\* C9: every account a run has inserted carries the hash of the secret of
\* its email, which differs from that secret and which verify_password
\* accepts with that secret.
C9_HashNotPlaintext ==
    \A u \in users :
        (\E r \in Runs : u.id \in UserIdsOf(r)) =>
            \E i \in DOMAIN UserSpecs :
                /\ u.email = UserSpecs[i].email
                /\ u.hashed_password = get_password_hash(UserSpecs[i].secret)
                /\ u.hashed_password # UserSpecs[i].secret
                /\ verify_password(UserSpecs[i].secret, u.hashed_password)

C9_Witness ==
    \E r \in Runs :
        /\ Cardinality(UserIdsOf(r)) = 3
        /\ \A e \in SeedEmails : \E u \in WithEmail(e) : u.id \in UserIdsOf(r)

\* C10: every work record, committed or pending, has a non-negative integer
\* budget equal to the literal of its name: Website Redesign 5,000,000,
\* Mobile App 10,000,000, API Integration 2,500,000.
C10_BudgetExact ==
    \A p \in projects \cup UNION {Range(pobj[r]) : r \in Runs} :
        /\ p.budget \in Nat
        /\ p.name \in {"Website Redesign", "Mobile App", "API Integration"}
        /\ p.name = "Website Redesign" => p.budget = 5000000
        /\ p.name = "Mobile App" => p.budget = 10000000
        /\ p.name = "API Integration" => p.budget = 2500000

C10_Witness ==
    /\ Cardinality(projects) >= 3
    /\ \E p \in projects : p.name = "Website Redesign" /\ p.budget = 5000000
\* Run r has re-read the admin and the manager account after its commit.
IdsRetrieved(r) ==
    \/ pc[r] \in {"add_projects", "commit_projects", "report", "done"}
    \/ pc[r] = "failed" /\ error[r] \in {"add_projects", "commit_projects"}

\* C11: a run holds a work record, pending or committed, only after its
\* account commit has succeeded and the admin and manager accounts have been
\* re-read; the owner of every such work record, and of every work record of
\* the store, is an account already committed to the store.
C11_TwoPhaseOrdering ==
    /\ \A r \in Runs :
          (pobj[r] # <<>> \/ ProjectIdsOf(r) # {}) =>
              /\ PastUserCommit(r)
              /\ IdsRetrieved(r)
              /\ Cardinality(UserIdsOf(r)) = 3
              /\ \A o \in Range(pobj[r]) :
                    /\ o.owner_id # NoId
                    /\ \E u \in users : u.id = o.owner_id
    /\ \A p \in projects : \E u \in users : u.id = p.owner_id

C11_Witness ==
    \E r \in Runs :
        /\ pc[r] = "commit_projects"
        /\ Len(pending[r]) = 3
        /\ pending[r] = pobj[r]
        /\ projects = {}
        /\ \A o \in Range(pobj[r]) : \E u \in users : u.id = o.owner_id
\* The order of the steps of seed(): each step leads to the next one, the
\* count query may end the run as skipped, a step that can raise may end it
\* as failed.
Flow ==
    { <<"count", "hash">>, <<"hash", "add_users">>,
      <<"add_users", "commit_users">>, <<"commit_users", "refresh_admin">>,
      <<"refresh_admin", "refresh_manager">>,
      <<"refresh_manager", "add_projects">>,
      <<"add_projects", "commit_projects">>, <<"commit_projects", "report">>,
      <<"report", "done">>, <<"count", "skipped">> }
    \cup {<<st, "failed">> : st \in FailSteps}

Terminated(r) == Outcome(r)[1] \in {"Skipped", "Seeded", "Failed"}

\* C12: every run moves through count, account insert, commit, identifier
\* retrieval, work-record insert, commit and report in that order, each at
\* most once, and ends, for good, as Skipped, Seeded or failed.
C12_LinearFlow ==
    /\ [][\A r \in Runs :
            /\ pc'[r] # pc[r] => <<pc[r], pc'[r]>> \in Flow
            /\ Terminated(r) => (pc'[r] = pc[r] /\ Outcome(r)' = Outcome(r))]_vars
    /\ \A r \in Runs : <>[]Terminated(r)

C12_Witness ==
    \E r, q \in Runs :
        /\ Outcome(r) = <<"Seeded", 3, 3>>
        /\ Outcome(q)[1] = "Skipped"
        /\ \A x \in Runs : Terminated(x)
\* Steps up to and including the commit of the accounts.
UpToUserCommit == {"count", "hash", "add_users", "commit_users"}

HasCredentials(r) ==
    \E i \in DOMAIN out[r] : out[r][i][1] = "credentials"

\* C14: a run has printed the three email/secret pairs only if it is done
\* and its second commit has put its 3 work records in the store; a skipped
\* or failed run has never printed them, and a done run has printed exactly
\* the three literal pairs.
C14_ReportOnSuccess ==
    \A r \in Runs :
        /\ HasCredentials(r) =>
              /\ pc[r] = "done"
              /\ Cardinality(ProjectIdsOf(r)) = 3
              /\ \A i \in ProjectIdsOf(r) : \E p \in projects : p.id = i
        /\ pc[r] \in {"skipped", "failed"} => ~HasCredentials(r)
        /\ pc[r] = "done" =>
              out[r][Len(out[r])]
                 = <<"credentials",
                     << <<"admin@example.com", "admin123">>,
                        <<"manager@example.com", "manager123">>,
                        <<"viewer@example.com", "viewer123">> >> >>

C14_Witness ==
    \E r, q \in Runs :
        /\ pc[r] = "done"
        /\ HasCredentials(r)
        /\ pc[q] = "failed"
        /\ error[q] = "commit_projects"
        /\ ~HasCredentials(q)
====
